---- MODULE Spec2Model ----
(***************************************************************************)
(* Shift-time reconciliation (get_game_shifts) and pairwise overlap of    *)
(* teammates' shifts (get_overlapping_shifts) of hockey-api/nhl/           *)
(* json_shifts.py.                                                         *)
(*                                                                         *)
(* Strings are sequences of one-character strings, so that slicing,       *)
(* int(), f-string formatting and str.split are modelled by what they do. *)
(* A pandas frame is a sequence of rows; each row carries its index label *)
(* in the field Index.  A raised exception ends the call: pc = "raised"   *)
(* and returned.error names the exception.                                 *)
(***************************************************************************)
EXTENDS Integers, Sequences, FiniteSets, TLC

VARIABLES
    pc,               \* position of the running call
    raw,              \* get_game_shifts: the "data" list of the API answer
    game_shifts_df,   \* the shift frame: built by get_game_shifts, read by get_overlapping_shifts
    gameId,           \* get_overlapping_shifts: the gameId argument
    all_game_shifts,  \* get_overlapping_shifts: the rows of the selected game
    groups,           \* the (playerId, teamId) keys the groupby loop iterates, in order
    gi,               \* position of the running group in groups
    si,               \* position of the running shift in the running group
    checked_players,  \* players whose group has been processed
    overlap_dict_all, \* one entry per processed source shift
    compared,         \* history: every (source shift, partner shift) the inner loop visited
    returned          \* what the call returned or raised

vars == <<pc, raw, game_shifts_df, gameId, all_game_shifts, groups, gi, si,
          checked_players, overlap_dict_all, compared, returned>>

----------------------------------------------------------------------------
(* Bounds of the model *)

MaxRawRows == 1
MaxPeriod == 4
MaxRows == 2
MaxT == 2

----------------------------------------------------------------------------
(* Small helpers *)

Max(a, b) == IF a >= b THEN a ELSE b
Min(a, b) == IF a <= b THEN a ELSE b

\* All sequences over S of length 0..n
SeqsUpTo(S, n) == UNION {[1..k -> S] : k \in 0..n}

----------------------------------------------------------------------------
(* Python strings *)

Digits == <<"0", "1", "2", "3", "4", "5", "6", "7", "8", "9">>
DigitChars == {Digits[i] : i \in 1..10}
DigitVal(c) == (CHOOSE i \in 1..10 : Digits[i] = c) - 1

\* None (a null JSON value) and "" (the empty string)
None == <<"None">>
Empty == <<>>

IsDigits(cs) == Len(cs) > 0 /\ \A i \in 1..Len(cs) : cs[i] \in DigitChars

RECURSIVE NatOf(_)
NatOf(cs) ==
    IF cs = <<>> THEN 0
    ELSE NatOf(SubSeq(cs, 1, Len(cs) - 1)) * 10 + DigitVal(cs[Len(cs)])

\* int(cs) succeeds: an optional sign and at least one digit
CanInt(cs) ==
    IF Len(cs) > 0 /\ cs[1] = "-" THEN IsDigits(Tail(cs)) ELSE IsDigits(cs)

\* int(cs)
IntOf(cs) == IF cs[1] = "-" THEN 0 - NatOf(Tail(cs)) ELSE NatOf(cs)

RECURSIVE NatStr(_)
NatStr(n) ==
    IF n < 10 THEN <<Digits[n + 1]>>
    ELSE Append(NatStr(n \div 10), Digits[(n % 10) + 1])

\* str(n), as an f-string {n} formats an int
Str(n) == IF n < 0 THEN <<"-">> \o NatStr(0 - n) ELSE NatStr(n)

\* f"{a}:{b}"
Fmt(a, b) == Str(a) \o <<":">> \o Str(b)

\* x[0:2] and x[:2]
Slice02(x) == SubSeq(x, 1, Min(2, Len(x)))
\* x[3:]
Slice3(x) == SubSeq(x, 4, Len(x))

\* x.split(':')
RECURSIVE Split(_)
Split(x) ==
    IF \A i \in 1..Len(x) : x[i] # ":" THEN <<x>>
    ELSE LET i == CHOOSE k \in 1..Len(x) :
                      x[k] = ":" /\ \A j \in 1..(k - 1) : x[j] # ":"
         IN <<SubSeq(x, 1, i - 1)>> \o Split(SubSeq(x, i + 1, Len(x)))

\* "mm:ss" as the API writes it
Pad2(n) == <<Digits[(n \div 10) + 1], Digits[(n % 10) + 1]>>
Clock(m, s) == Pad2(m) \o <<":">> \o Pad2(s)

----------------------------------------------------------------------------
(* get_game_shifts *)

PeriodSeconds == 1200

ShiftColumns == <<"gameId", "playerId", "startTime", "period",
                  "endTime", "duration", "teamId", "teamName">>

Game1 == 2013020001
Game2 == Game1 + 1

\* The raw records the reconciler is run on: period-local mm:ss times within
\* 00:00..20:00, "" for a missing time, None for the null duration of a goal row.
RawStartTimes == {Empty, Clock(0, 0), Clock(17, 30), Clock(18, 0), Clock(18, 30),
                  Clock(20, 0)}
RawEndTimes == {Empty, Clock(0, 0), Clock(0, 30), Clock(18, 30), Clock(20, 0)}
RawDurations == {None, Clock(0, 30), Clock(1, 0)}

RawRows ==
    [gameId : {Game1}, playerId : {1}, startTime : RawStartTimes,
     period : 1..MaxPeriod, endTime : RawEndTimes, duration : RawDurations,
     teamId : {10}, teamName : {"Team10"}]

\* pd.json_normalize: one row per record, index 0..n-1
json_normalize(data) ==
    [i \in 1..Len(data) |->
        [Index |-> i - 1, gameId |-> data[i].gameId, playerId |-> data[i].playerId,
         startTime |-> data[i].startTime, period |-> data[i].period,
         endTime |-> data[i].endTime, duration |-> data[i].duration,
         teamId |-> data[i].teamId, teamName |-> data[i].teamName]]

\* The empty frame with the declared columns
EmptyFrame == [status |-> "ok", error |-> "", columns |-> ShiftColumns, rows |-> <<>>]

Running == [status |-> "running", error |-> "", columns |-> <<>>, rows |-> <<>>]

Raised(e) == [status |-> "raised", error |-> e, columns |-> <<>>, rows |-> <<>>]

\* A row dropna removes: one with a null in a selected column
isna(row) == row.startTime = None \/ row.endTime = None \/ row.duration = None

\* dropna that removes no row
dropna_KeepAll(df) == df

RECURSIVE dropna(_)
dropna(df) ==
    IF df = <<>> THEN <<>>
    ELSE (IF isna(Head(df)) THEN <<>> ELSE <<Head(df)>>) \o dropna(Tail(df))

\* Lines 52-59: the masks, each evaluated on one row
missing_start_time(row) == row.startTime = Empty
missing_end_time(row) == row.endTime = Empty
final_period(row) == row.period = 3
CanFinalTwoMinutes(row) == CanInt(Slice02(row.startTime))
final_two_minutes(row) == IntOf(Slice02(row.startTime)) >= 18

\* Lines 62-63: the end time of the final shifts in regulation
FinalShiftEnd(row) ==
    IF missing_end_time(row) /\ final_period(row) /\ final_two_minutes(row)
    THEN [row EXCEPT !.endTime = <<"2", "0", ":", "0", "0">>]
    ELSE row

\* Lines 69-71: the lambda computing a missing start time
CanStartFromEnd(row) ==
    /\ CanInt(Slice02(row.endTime)) /\ CanInt(Slice02(row.duration))
    /\ CanInt(Slice3(row.endTime)) /\ CanInt(Slice3(row.duration))
StartFromEnd(row) ==
    Fmt(IntOf(Slice02(row.endTime)) - IntOf(Slice02(row.duration)),
        IntOf(Slice3(row.endTime)) - IntOf(Slice3(row.duration)))

\* Lines 74-76: the lambda computing a missing end time
CanEndFromStart(row) ==
    /\ CanInt(Slice02(row.startTime)) /\ CanInt(Slice02(row.duration))
    /\ CanInt(Slice3(row.startTime)) /\ CanInt(Slice3(row.duration))
\* The seconds wrapped at 60 without a carry to the minutes
EndFromStart_NoCarry(row) ==
    Fmt(IntOf(Slice02(row.startTime)) + IntOf(Slice02(row.duration)),
        (IntOf(Slice3(row.startTime)) + IntOf(Slice3(row.duration))) % 60)
EndFromStart(row) ==
    Fmt(IntOf(Slice02(row.startTime)) + IntOf(Slice02(row.duration)),
        IntOf(Slice3(row.startTime)) + IntOf(Slice3(row.duration)))

\* Lines 62-66 on a frame
AfterFinalShifts(df) == [i \in 1..Len(df) |-> FinalShiftEnd(df[i])]

\* Lines 69-71 on a frame: msk is missing_start_time as computed on line 52
AfterStartBackfill(df, msk) ==
    [i \in 1..Len(df) |->
        IF msk[i] THEN [df[i] EXCEPT !.startTime = StartFromEnd(df[i])] ELSE df[i]]

\* Lines 74-76 on a frame: the mask is missing_end_time as recomputed on line 66
AfterEndBackfill(df) ==
    [i \in 1..Len(df) |->
        IF missing_end_time(df[i])
        THEN [df[i] EXCEPT !.endTime = EndFromStart(df[i])] ELSE df[i]]

\* Lines 79-84: "m:s" to seconds; the unpacking needs exactly two parts
CanSeconds(x) ==
    /\ Len(Split(x)) = 2
    /\ CanInt(Split(x)[1]) /\ CanInt(Split(x)[2])
Seconds(x) == IntOf(Split(x)[1]) * 60 + IntOf(Split(x)[2])

RowCanSeconds(row) ==
    CanSeconds(row.startTime) /\ CanSeconds(row.endTime) /\ CanSeconds(row.duration)
RowToSeconds(row) ==
    [row EXCEPT !.startTime = Seconds(row.startTime),
                !.endTime = Seconds(row.endTime),
                !.duration = Seconds(row.duration)]

\* The offset of the period before
TotalElapsed_PeriodBefore(row) ==
    [row EXCEPT !.startTime = PeriodSeconds * (row.period - 2) + row.startTime,
                !.endTime = PeriodSeconds * (row.period - 2) + row.endTime]

\* Lines 87-88: total elapsed time
TotalElapsed(row) ==
    [row EXCEPT !.startTime = PeriodSeconds * (row.period - 1) + row.startTime,
                !.endTime = PeriodSeconds * (row.period - 1) + row.endTime]

\* No correction of an end time in the next period
PeriodShifted_NoWrap(row) == row

\* Lines 91-95: an end time in the next period
period_shift(row) == row.endTime < row.startTime
PeriodShifted(row) ==
    IF period_shift(row) THEN [row EXCEPT !.endTime = row.endTime + PeriodSeconds]
    ELSE row

\* Line 98
Recomputed(row) == [row EXCEPT !.duration = row.endTime - row.startTime]

\* Lines 29-37
Fetch ==
    /\ pc = "fetch"
    /\ game_shifts_df' = json_normalize(raw)
    /\ IF Len(game_shifts_df') = 0
       THEN pc' = "returned" /\ returned' = EmptyFrame
       ELSE pc' = "select" /\ UNCHANGED returned
    /\ UNCHANGED <<raw, gameId, all_game_shifts, groups, gi, si, checked_players,
                   overlap_dict_all, compared>>

\* Lines 40-49
SelectDropna ==
    /\ pc = "select"
    /\ game_shifts_df' = dropna(game_shifts_df)
    /\ IF Len(game_shifts_df') = 0
       THEN pc' = "returned" /\ returned' = EmptyFrame
       ELSE pc' = "backfill" /\ UNCHANGED returned
    /\ UNCHANGED <<raw, gameId, all_game_shifts, groups, gi, si, checked_players,
                   overlap_dict_all, compared>>

\* Lines 52-76
Backfill ==
    /\ pc = "backfill"
    /\ LET df0 == game_shifts_df
           rows == 1..Len(df0)
           msk == [i \in rows |-> missing_start_time(df0[i])]
           ok59 == \A i \in rows : CanFinalTwoMinutes(df0[i])
           df1 == AfterFinalShifts(df0)
           ok69 == \A i \in rows : msk[i] => CanStartFromEnd(df1[i])
           df2 == AfterStartBackfill(df1, msk)
           ok74 == \A i \in rows : missing_end_time(df2[i]) => CanEndFromStart(df2[i])
           df3 == AfterEndBackfill(df2)
       IN IF ok59 /\ ok69 /\ ok74
          THEN /\ game_shifts_df' = df3
               /\ pc' = "convert"
               /\ UNCHANGED returned
          ELSE /\ pc' = "raised"
               /\ returned' = Raised("ValueError")
               /\ UNCHANGED game_shifts_df
    /\ UNCHANGED <<raw, gameId, all_game_shifts, groups, gi, si, checked_players,
                   overlap_dict_all, compared>>

\* Lines 79-84
ToSeconds ==
    /\ pc = "convert"
    /\ IF \A i \in 1..Len(game_shifts_df) : RowCanSeconds(game_shifts_df[i])
       THEN /\ game_shifts_df' =
                   [i \in 1..Len(game_shifts_df) |-> RowToSeconds(game_shifts_df[i])]
            /\ pc' = "elapsed"
            /\ UNCHANGED returned
       ELSE /\ pc' = "raised"
            /\ returned' = Raised("ValueError")
            /\ UNCHANGED game_shifts_df
    /\ UNCHANGED <<raw, gameId, all_game_shifts, groups, gi, si, checked_players,
                   overlap_dict_all, compared>>

\* Lines 87-100
Elapsed ==
    /\ pc = "elapsed"
    /\ game_shifts_df' =
           [i \in 1..Len(game_shifts_df) |->
               Recomputed(PeriodShifted(TotalElapsed(game_shifts_df[i])))]
    /\ pc' = "returned"
    /\ returned' = [status |-> "ok", error |-> "", columns |-> ShiftColumns,
                    rows |-> game_shifts_df']
    /\ UNCHANGED <<raw, gameId, all_game_shifts, groups, gi, si, checked_players,
                   overlap_dict_all, compared>>

InitShifts ==
    /\ pc = "fetch"
    /\ raw \in SeqsUpTo(RawRows, MaxRawRows)
    /\ game_shifts_df = <<>>
    /\ gameId = Game1
    /\ all_game_shifts = <<>>
    /\ groups = <<>>
    /\ gi = 1
    /\ si = 1
    /\ checked_players = <<>>
    /\ overlap_dict_all = <<>>
    /\ compared = <<>>
    /\ returned = Running

NextShifts == Fetch \/ SelectDropna \/ Backfill \/ ToSeconds \/ Elapsed

SpecShifts == InitShifts /\ [][NextShifts]_vars

----------------------------------------------------------------------------
(* get_overlapping_shifts *)

OverlapColumns == <<"gameId", "playerId", "playerId2", "seconds">>

PlayerIds == {1, 2, 3}
TeamIds == {10, 20}

Shift(g, p, t, a, b) ==
    [gameId |-> g, playerId |-> p, startTime |-> a, period |-> 1, endTime |-> b,
     duration |-> b - a, teamId |-> t,
     teamName |-> IF t = 10 THEN "Team10" ELSE "Team20"]

Intervals == {x \in (0..MaxT) \X (0..MaxT) : x[1] <= x[2]}

\* Reconciled shifts of the requested game: endTime >= startTime, duration = endTime - startTime
GameShifts ==
    {Shift(Game1, p, t, x[1], x[2]) : p \in PlayerIds, t \in TeamIds, x \in Intervals}

\* Shifts of another game in the same frame: one full-length shift per player
OtherGameShifts == {Shift(Game2, p, 10, 0, MaxT) : p \in PlayerIds}

\* In the shift rows of one game a player has one team
OneTeamPerPlayer(rows) ==
    \A i, j \in 1..Len(rows) :
        (rows[i].gameId = rows[j].gameId /\ rows[i].playerId = rows[j].playerId)
            => rows[i].teamId = rows[j].teamId

\* The frame's index: labels 0..n-1
WithIndex(rows) ==
    [i \in 1..Len(rows) |->
        [Index |-> i - 1, gameId |-> rows[i].gameId, playerId |-> rows[i].playerId,
         startTime |-> rows[i].startTime, period |-> rows[i].period,
         endTime |-> rows[i].endTime, duration |-> rows[i].duration,
         teamId |-> rows[i].teamId, teamName |-> rows[i].teamName]]

\* No selection of the game
SelectGame_All(df, g) == df

\* Line 166
SelectGame(df, g) == SelectSeq(df, LAMBDA row : row.gameId = g)

\* The keys in descending order
KeyLess_Desc(k1, k2) == k1[1] > k2[1] \/ (k1[1] = k2[1] /\ k1[2] > k2[2])

\* Line 175: the keys of groupby(["playerId", "teamId"]), sorted
KeyLess(k1, k2) == k1[1] < k2[1] \/ (k1[1] = k2[1] /\ k1[2] < k2[2])

RECURSIVE SortKeys(_)
SortKeys(S) ==
    IF S = {} THEN <<>>
    ELSE LET m == CHOOSE k \in S : \A o \in S : o = k \/ KeyLess(k, o)
         IN <<m>> \o SortKeys(S \ {m})

GroupKeys(df) == SortKeys({<<df[i].playerId, df[i].teamId>> : i \in 1..Len(df)})

\* Line 175: the rows of one group, in frame order
GroupShifts(df, key) ==
    SelectSeq(df, LAMBDA row : row.playerId = key[1] /\ row.teamId = key[2])

\* Line 179: all_game_shifts.drop(shifts.index)
DropIndex(df, shifts) ==
    SelectSeq(df, LAMBDA row : \A i \in 1..Len(shifts) : shifts[i].Index # row.Index)

\* Line 182: rows of players not yet checked
NotChecked(df, checked) ==
    SelectSeq(df, LAMBDA row : \A i \in 1..Len(checked) : checked[i] # row.playerId)

\* The checked players are not removed
other_players_KeepChecked(df, shifts, checked) == DropIndex(df, shifts)

\* Lines 179-182
other_players(df, shifts, checked) == NotChecked(DropIndex(df, shifts), checked)

\* No team check
correct_team_Any(other, player_team) == TRUE

\* Line 185
correct_team(other, player_team) == other.teamId = player_team[2]

\* Lines 188-193
correct_time(other, shift) ==
    \/ (other.startTime >= shift.startTime /\ other.startTime < shift.endTime)
    \/ (other.startTime < shift.startTime /\ other.endTime > shift.startTime)

\* Line 196
shift_overlap(others, shift, player_team) ==
    SelectSeq(others, LAMBDA o : correct_team(o, player_team) /\ correct_time(o, shift))

\* A range that counts its stop value
RangeLen_Closed(lo, hi) == IF hi >= lo THEN hi - lo + 1 ELSE 0

\* len(range(lo, hi))
RangeLen(lo, hi) == IF hi > lo THEN hi - lo ELSE 0

\* Lines 204-217 raise IndexError when shift_range is empty and is indexed
CanIndexRanges(shift, other) ==
    \/ RangeLen(other.startTime, other.endTime) = 0
    \/ RangeLen(shift.startTime, shift.endTime) > 0

\* The overlap range without the closing + 1
OverlapLen_NoPlusOne(shift, other) ==
    IF RangeLen(other.startTime, other.endTime) = 0 THEN 0
    ELSE RangeLen(Max(shift.startTime, other.startTime),
                  Min(shift.endTime - 1, other.endTime - 1))

\* Lines 204-220: the value stored for the partner; r[0] = start, r[-1] = stop - 1
OverlapLen(shift, other) ==
    IF RangeLen(other.startTime, other.endTime) = 0 THEN 0
    ELSE RangeLen(Max(shift.startTime, other.startTime),
                  Min(shift.endTime - 1, other.endTime - 1) + 1)

\* overlap_dict[k] = v: a new key is appended, an old key keeps its place.
\* via is history: the index label of the partner shift the value came from.
DictSet(d, k, v, via) ==
    IF \E i \in 1..Len(d) : d[i].key = k
    THEN [i \in 1..Len(d) |->
             IF d[i].key = k THEN [key |-> k, value |-> v, via |-> via] ELSE d[i]]
    ELSE Append(d, [key |-> k, value |-> v, via |-> via])

\* Lines 199-220
RECURSIVE overlap_dict(_, _, _)
overlap_dict(shift, partners, d) ==
    IF partners = <<>> THEN d
    ELSE overlap_dict(shift, Tail(partners),
                      DictSet(d, Head(partners).playerId,
                              OverlapLen(shift, Head(partners)), Head(partners).Index))

\* Columns of pd.concat(overlap_dict_all) that hold partners, in order of appearance
RECURSIVE PartnerColumns(_, _)
PartnerColumns(entries, cols) ==
    IF entries = <<>> THEN cols
    ELSE LET d == Head(entries).dict
             new == SelectSeq(d, LAMBDA e : \A i \in 1..Len(cols) : cols[i] # e.key)
         IN PartnerColumns(Tail(entries), cols \o [i \in 1..Len(new) |-> new[i].key])

RECURSIVE Concat(_)
Concat(ss) == IF ss = <<>> THEN <<>> ELSE Head(ss) \o Concat(Tail(ss))

\* Lines 245-256: wide to long; dropna removes the cells a shift has no value for.
\* Index and via are history: the source shift's and the partner shift's labels.
Melt(entries) ==
    LET cols == PartnerColumns(entries, <<>>)
        Cell(c, e) ==
            LET hit == SelectSeq(e.dict, LAMBDA x : x.key = c)
            IN [i \in 1..Len(hit) |->
                   [Index |-> e.shift.Index, gameId |-> e.shift.gameId,
                    playerId |-> e.shift.playerId, playerId2 |-> c,
                    seconds |-> hit[i].value, via |-> hit[i].via]]
        Column(c) == Concat([j \in 1..Len(entries) |-> Cell(c, entries[j])])
    IN Concat([k \in 1..Len(cols) |-> Column(cols[k])])

\* The returned columns of a melted row
Long(m) == [gameId |-> m.gameId, playerId |-> m.playerId,
            playerId2 |-> m.playerId2, seconds |-> m.seconds]

\* Lines 166-172
Start ==
    /\ pc = "start"
    /\ all_game_shifts' = SelectGame(game_shifts_df, gameId)
    /\ overlap_dict_all' = <<>>
    /\ checked_players' = <<>>
    /\ groups' = GroupKeys(all_game_shifts')
    /\ gi' = 1
    /\ si' = 1
    /\ pc' = "loop"
    /\ UNCHANGED <<raw, game_shifts_df, gameId, compared, returned>>

\* Lines 177-239: one shift of the running group
ProcessShift ==
    /\ pc = "loop"
    /\ gi <= Len(groups)
    /\ LET player_team == groups[gi]
           shifts == GroupShifts(all_game_shifts, player_team)
       IN /\ si <= Len(shifts)
          /\ LET shift == shifts[si]
                 others == other_players(all_game_shifts, shifts, checked_players)
                 partners == shift_overlap(others, shift, player_team)
             IN IF \A k \in 1..Len(partners) : CanIndexRanges(shift, partners[k])
                THEN /\ overlap_dict_all' =
                            Append(overlap_dict_all,
                                   [shift |-> shift,
                                    dict |-> overlap_dict(shift, partners, <<>>)])
                     /\ compared' = compared \o
                            [k \in 1..Len(partners) |->
                                [src |-> shift.Index, tgt |-> partners[k].Index,
                                 seconds |-> OverlapLen(shift, partners[k])]]
                     /\ si' = si + 1
                     /\ UNCHANGED <<pc, returned>>
                ELSE /\ pc' = "raised"
                     /\ returned' = Raised("IndexError")
                     /\ UNCHANGED <<overlap_dict_all, compared, si>>
    /\ UNCHANGED <<raw, game_shifts_df, gameId, all_game_shifts, groups, gi,
                   checked_players>>

\* Line 242: the running group is finished
PlayerDone ==
    /\ pc = "loop"
    /\ gi <= Len(groups)
    /\ si > Len(GroupShifts(all_game_shifts, groups[gi]))
    /\ checked_players' = Append(checked_players, groups[gi][1])
    /\ gi' = gi + 1
    /\ si' = 1
    /\ UNCHANGED <<pc, raw, game_shifts_df, gameId, all_game_shifts, groups,
                   overlap_dict_all, compared, returned>>

\* Lines 245-258: pd.concat raises ValueError when there is nothing to concatenate
Combine ==
    /\ pc = "loop"
    /\ gi > Len(groups)
    /\ IF overlap_dict_all = <<>>
       THEN /\ pc' = "raised"
            /\ returned' = Raised("ValueError")
       ELSE /\ pc' = "done"
            /\ returned' =
                   [status |-> "ok", error |-> "", columns |-> OverlapColumns,
                    rows |-> LET m == Melt(overlap_dict_all)
                             IN [k \in 1..Len(m) |-> Long(m[k])]]
    /\ UNCHANGED <<raw, game_shifts_df, gameId, all_game_shifts, groups, gi, si,
                   checked_players, overlap_dict_all, compared>>

\* Frames of the scenarios the specification names
ScenarioFrames ==
    {<<Shift(Game1, 1, 10, 0, 100), Shift(Game1, 2, 10, 50, 150)>>,
     <<Shift(Game1, 1, 10, 0, 100), Shift(Game1, 2, 10, 100, 200)>>,
     <<Shift(Game1, 1, 10, 0, 100), Shift(Game1, 2, 10, 10, 20),
       Shift(Game1, 2, 10, 50, 70)>>,
     <<Shift(Game1, 1, 10, 0, 100), Shift(Game1, 2, 10, 50, 150),
       Shift(Game1, 3, 10, 80, 120)>>,
     <<Shift(Game1, 1, 10, 0, 100), Shift(Game2, 2, 10, 0, 100),
       Shift(Game1, 2, 10, 50, 150)>>}

InitOverlap ==
    /\ pc = "start"
    /\ raw = <<>>
    /\ game_shifts_df \in
           {WithIndex(t) :
               t \in {f \in SeqsUpTo(GameShifts \cup OtherGameShifts, MaxRows) :
                         OneTeamPerPlayer(f)}
                     \cup ScenarioFrames}
    /\ gameId = Game1
    /\ all_game_shifts = <<>>
    /\ groups = <<>>
    /\ gi = 1
    /\ si = 1
    /\ checked_players = <<>>
    /\ overlap_dict_all = <<>>
    /\ compared = <<>>
    /\ returned = Running

NextOverlap == Start \/ ProcessShift \/ PlayerDone \/ Combine

SpecOverlap == InitOverlap /\ [][NextOverlap]_vars

----------------------------------------------------------------------------
(* Properties of get_game_shifts, checked under SpecShifts *)

ShiftsReturned == pc = "returned" /\ returned.status = "ok"

\* The raw record a returned row was made from
RawOf(row) == raw[row.Index + 1]

\* C1: every row of the table get_game_shifts returns has endTime >= startTime
\* and duration = endTime - startTime, whatever the raw duration was and
\* whether or not the end time was backfilled or wrapped past the period.
C1_ReconciledConsistent ==
    ShiftsReturned =>
        \A i \in 1..Len(returned.rows) :
            /\ returned.rows[i].endTime >= returned.rows[i].startTime
            /\ returned.rows[i].duration
                   = returned.rows[i].endTime - returned.rows[i].startTime

\* A returned row whose raw end time lies before its raw start time in the
\* period (wrapped) and whose raw duration differs from the recomputed one
C1_Witness ==
    /\ ShiftsReturned
    /\ \E i \in 1..Len(returned.rows) :
           /\ RawOf(returned.rows[i]).endTime # Empty
           /\ Seconds(RawOf(returned.rows[i]).endTime)
                  < Seconds(RawOf(returned.rows[i]).startTime)
           /\ returned.rows[i].duration # Seconds(RawOf(returned.rows[i]).duration)
           /\ returned.rows[i].endTime > returned.rows[i].startTime

\* Every raw row has a null in a selected column (also: there is no raw row)
AllRawRowsNull ==
    \A i \in 1..Len(raw) :
        raw[i].startTime = None \/ raw[i].endTime = None \/ raw[i].duration = None

\* C2: with zero raw rows, or with every raw row dropped for a null field,
\* get_game_shifts returns an empty table with exactly the columns gameId,
\* playerId, startTime, period, endTime, duration, teamId, teamName, and
\* raises nothing.
C2_EmptyGameEmptyFrame ==
    (pc \in {"returned", "raised"} /\ AllRawRowsNull) =>
        /\ pc = "returned"
        /\ returned.status = "ok"
        /\ returned.rows = <<>>
        /\ returned.columns = <<"gameId", "playerId", "startTime", "period",
                                "endTime", "duration", "teamId", "teamName">>

\* A call that returned after dropna removed every row of a non-empty answer
C2_Witness ==
    /\ pc = "returned"
    /\ Len(raw) > 0
    /\ AllRawRowsNull
    /\ returned.rows = <<>>
    /\ returned.columns = ShiftColumns

\* The scenario of C3: one raw record, endTime missing, period 3,
\* startTime "18:30", duration "01:00"
C3_Scenario ==
    /\ Len(raw) = 1
    /\ raw[1].endTime = Empty
    /\ raw[1].period = 3
    /\ raw[1].startTime = <<"1", "8", ":", "3", "0">>
    /\ raw[1].duration = <<"0", "1", ":", "0", "0">>

\* C3 as stated: the scenario yields endTime 2400, startTime 2310, duration 90.
C3_AsStated ==
    (pc \in {"returned", "raised"} /\ C3_Scenario) =>
        /\ ShiftsReturned
        /\ Len(returned.rows) = 1
        /\ returned.rows[1].endTime = 2400
        /\ returned.rows[1].startTime = 2310
        /\ returned.rows[1].duration = 90

\* C3 amended: the scenario yields endTime at the end of period 3, elapsed
\* 3600, startTime elapsed 3510, and the recomputed duration 90.
C3_FinalShiftScenario ==
    (pc \in {"returned", "raised"} /\ C3_Scenario) =>
        /\ ShiftsReturned
        /\ Len(returned.rows) = 1
        /\ returned.rows[1].endTime = 3600
        /\ returned.rows[1].startTime = 3510
        /\ returned.rows[1].duration = 90

\* The scenario of C3 has been reconciled
C3_Witness == ShiftsReturned /\ C3_Scenario /\ returned.rows[1].duration = 90

----------------------------------------------------------------------------
(* Properties of get_overlapping_shifts, checked under SpecOverlap *)

\* The row of a frame with index label idx
RowAt(df, idx) == CHOOSE row \in {df[i] : i \in 1..Len(df)} : row.Index = idx

\* The melted cells behind the returned rows, in the same order
Cells == Melt(overlap_dict_all)

OverlapReturned ==
    pc = "done" /\ returned.status = "ok" /\ Len(returned.rows) = Len(Cells)

\* The overlap predicate of lines 188-193 between source [a0,a1) and partner [b0,b1)
Predicate(a0, a1, b0, b1) == (b0 >= a0 /\ b0 < a1) \/ (b0 < a0 /\ b1 > a0)

\* C4: every record emitted for a source shift A = [a0,a1) and partner q has
\* seconds = max(0, min(a1,b1) - max(a0,b0)) for a shift B = [b0,b1) of q, on
\* A's team, that satisfies the overlap predicate with A; and A = [0,100),
\* B = [50,150) on one team give the single record with 50 seconds.
C4_OverlapMagnitude ==
    pc = "done" =>
        /\ OverlapReturned
        /\ LET cells == Cells IN \A k \in 1..Len(cells) :
               LET A == RowAt(all_game_shifts, cells[k].Index)
                   r == returned.rows[k]
               IN /\ r.playerId = A.playerId
                  /\ \E j \in 1..Len(all_game_shifts) :
                         LET B == all_game_shifts[j]
                         IN /\ B.playerId = r.playerId2
                            /\ B.playerId # A.playerId
                            /\ B.teamId = A.teamId
                            /\ Predicate(A.startTime, A.endTime, B.startTime, B.endTime)
                            /\ r.seconds = Max(0, Min(A.endTime, B.endTime)
                                                  - Max(A.startTime, B.startTime))
        /\ (game_shifts_df = WithIndex(<<Shift(Game1, 1, 10, 0, 100),
                                         Shift(Game1, 2, 10, 50, 150)>>))
               => returned.rows = <<[gameId |-> Game1, playerId |-> 1,
                                     playerId2 |-> 2, seconds |-> 50]>>

\* The frame A = [0,100), B = [50,150) has been processed and gave 50 seconds
C4_Witness ==
    /\ pc = "done"
    /\ Len(all_game_shifts) = 2
    /\ all_game_shifts[1].startTime = 0 /\ all_game_shifts[1].endTime = 100
    /\ all_game_shifts[2].startTime = 50 /\ all_game_shifts[2].endTime = 150
    /\ Len(returned.rows) = 1
    /\ returned.rows[1].seconds = 50

\* C5: no pair of shift instances (A of p, B of q, p # q) is counted more than
\* once: neither the inner loop nor the output holds the overlap of the same
\* unordered {A, B} twice, in the same or in opposite directions.
C5_NoPairTwice ==
    /\ \A i, j \in 1..Len(compared) :
           i # j => {compared[i].src, compared[i].tgt}
                        # {compared[j].src, compared[j].tgt}
    /\ pc = "done" =>
           /\ OverlapReturned
           /\ LET cells == Cells IN \A i, j \in 1..Len(cells) :
                  i # j => {cells[i].Index, cells[i].via}
                               # {cells[j].Index, cells[j].via}

\* Two teammates whose shifts overlap from either side were both processed
\* and the pair was recorded once
C5_Witness ==
    /\ pc = "done"
    /\ Len(all_game_shifts) = 2
    /\ all_game_shifts[1].playerId # all_game_shifts[2].playerId
    /\ all_game_shifts[1].teamId = all_game_shifts[2].teamId
    /\ Predicate(all_game_shifts[1].startTime, all_game_shifts[1].endTime,
                 all_game_shifts[2].startTime, all_game_shifts[2].endTime)
    /\ Predicate(all_game_shifts[2].startTime, all_game_shifts[2].endTime,
                 all_game_shifts[1].startTime, all_game_shifts[1].endTime)
    /\ Len(checked_players) = 2
    /\ Len(returned.rows) = 1

\* The records of source shift A that name partner q
RecordsOf(A, q) == {k \in 1..Len(Cells) : Cells[k].Index = A.Index /\ Cells[k].playerId2 = q}

\* The shifts of q, a teammate processed after A's player, that overlap A
PartnerShifts(A, q) ==
    {j \in 1..Len(all_game_shifts) :
        /\ all_game_shifts[j].playerId = q
        /\ all_game_shifts[j].teamId = A.teamId
        /\ Predicate(A.startTime, A.endTime,
                     all_game_shifts[j].startTime, all_game_shifts[j].endTime)}

\* C6: one record per (source shift, overlapping partner shift): a source shift
\* A of p that overlaps k shifts of a not yet processed teammate q has k
\* records (p, q), one with each partner shift's overlap seconds.
C6_RecordPerPartnerShift ==
    pc = "done" =>
        \A i \in 1..Len(all_game_shifts) : \A q \in PlayerIds :
            LET A == all_game_shifts[i]
            IN q > A.playerId =>
                   /\ Cardinality(RecordsOf(A, q)) = Cardinality(PartnerShifts(A, q))
                   /\ \A j \in PartnerShifts(A, q) :
                          \E k \in RecordsOf(A, q) :
                              /\ Cells[k].via = all_game_shifts[j].Index
                              /\ Cells[k].seconds =
                                     Max(0, Min(A.endTime, all_game_shifts[j].endTime)
                                            - Max(A.startTime, all_game_shifts[j].startTime))

\* C7: a zero-duration shift contributes zero seconds to every partner and
\* never makes get_overlapping_shifts fail, be it the source or the partner.
C7_ZeroDurationHarmless ==
    /\ ~(pc = "raised" /\ returned.error = "IndexError")
    /\ pc = "done" =>
           \A k \in 1..Len(Cells) :
               LET A == RowAt(all_game_shifts, Cells[k].Index)
                   B == RowAt(all_game_shifts, Cells[k].via)
               IN (A.startTime = A.endTime \/ B.startTime = B.endTime)
                      => Cells[k].seconds = 0

\* C8: the overlap test and magnitude are symmetric: for same-team shifts A, B
\* of different players, B tested against source A overlaps iff A tested
\* against source B does, and with the same number of seconds.
C8_OverlapSymmetric ==
    \A i, j \in 1..Len(all_game_shifts) :
        LET A == all_game_shifts[i]
            B == all_game_shifts[j]
        IN (A.playerId # B.playerId /\ A.teamId = B.teamId) =>
               /\ correct_time(B, A) <=> correct_time(A, B)
               /\ (/\ correct_time(B, A) /\ correct_time(A, B)
                   /\ CanIndexRanges(A, B) /\ CanIndexRanges(B, A))
                      => OverlapLen(A, B) = OverlapLen(B, A)

\* The frame holds shifts of more than one game
CrossGameInput ==
    \E i, j \in 1..Len(game_shifts_df) :
        game_shifts_df[i].gameId # game_shifts_df[j].gameId

\* C9 as stated: a frame with shifts of more than one gameId is rejected and
\* produces no overlap records.
C9_CrossGameRejected == CrossGameInput => pc # "done"

\* C9 amended: a frame with shifts of more than one gameId is not rejected for
\* that; the rows of other games are left out, and every emitted record carries
\* the requested gameId and comes from two shifts of that game.
C9_OnlyRequestedGame ==
    pc = "done" =>
        /\ OverlapReturned
        /\ LET cells == Cells IN \A k \in 1..Len(cells) :
               /\ returned.rows[k].gameId = gameId
               /\ RowAt(game_shifts_df, cells[k].Index).gameId = gameId
               /\ RowAt(game_shifts_df, cells[k].via).gameId = gameId

\* A frame with two games was processed to the end and gave records
C9_Witness ==
    /\ pc = "done"
    /\ CrossGameInput
    /\ Len(returned.rows) > 0

\* C10: every emitted record pairs two players whose shifts carry the same
\* teamId; no two shifts of different teams are ever compared or recorded.
C10_SameTeamOnly ==
    /\ \A i \in 1..Len(compared) :
           RowAt(all_game_shifts, compared[i].src).teamId
               = RowAt(all_game_shifts, compared[i].tgt).teamId
    /\ pc = "done" =>
           /\ OverlapReturned
           /\ LET cells == Cells IN \A k \in 1..Len(cells) :
                  LET A == RowAt(game_shifts_df, cells[k].Index)
                      B == RowAt(game_shifts_df, cells[k].via)
                  IN /\ A.playerId = returned.rows[k].playerId
                     /\ B.playerId = returned.rows[k].playerId2
                     /\ A.teamId = B.teamId

\* Two players of different teams with intersecting shifts were processed
\* and no record was emitted
C10_Witness ==
    /\ pc = "done"
    /\ Len(all_game_shifts) = 2
    /\ all_game_shifts[1].playerId # all_game_shifts[2].playerId
    /\ all_game_shifts[1].teamId # all_game_shifts[2].teamId
    /\ Predicate(all_game_shifts[1].startTime, all_game_shifts[1].endTime,
                 all_game_shifts[2].startTime, all_game_shifts[2].endTime)
    /\ returned.rows = <<>>

\* Two shifts that share no time: a1 <= b0 or b1 <= a0
Disjoint(A, B) == A.endTime <= B.startTime \/ B.endTime <= A.startTime

\* C11: two same-team shifts A = [a0,a1), B = [b0,b1) of different players
\* with a1 <= b0 or b1 <= a0 get 0 seconds: whenever the inner loop visits such
\* a pair it stores 0, no emitted record made from such a pair has seconds > 0,
\* and A = [0,100), B = [100,200) on one team give no record at all.
C11_DisjointZero ==
    /\ \A i \in 1..Len(compared) :
           Disjoint(RowAt(all_game_shifts, compared[i].src),
                    RowAt(all_game_shifts, compared[i].tgt))
               => compared[i].seconds = 0
    /\ pc = "done" =>
           /\ OverlapReturned
           /\ LET cells == Cells IN \A k \in 1..Len(cells) :
                  Disjoint(RowAt(all_game_shifts, cells[k].Index),
                           RowAt(all_game_shifts, cells[k].via))
                      => returned.rows[k].seconds = 0
           /\ (game_shifts_df = WithIndex(<<Shift(Game1, 1, 10, 0, 100),
                                            Shift(Game1, 2, 10, 100, 200)>>))
                  => returned.rows = <<>>

\* The frame A = [0,100), B = [100,200) of two teammates has been processed:
\* both shifts were sources and no record came out
C11_Witness ==
    /\ pc = "done"
    /\ Len(all_game_shifts) = 2
    /\ all_game_shifts[1].playerId # all_game_shifts[2].playerId
    /\ all_game_shifts[1].teamId = all_game_shifts[2].teamId
    /\ all_game_shifts[1].endTime = 100 /\ all_game_shifts[2].startTime = 100
    /\ Len(overlap_dict_all) = 2
    /\ returned.rows = <<>>

----------------------------------------------------------------------------
(* Backfilling in get_game_shifts, checked under SpecShifts *)

\* The minute and second components of a raw "mm:ss" time
ClockMin(x) == NatOf(SubSeq(x, 1, 2))
ClockSec(x) == NatOf(SubSeq(x, 4, 5))
ClockSeconds(x) == ClockMin(x) * 60 + ClockSec(x)

\* A raw record with startTime "" whose endTime and duration are present
StartMissing(r) ==
    r.startTime = Empty /\ r.endTime \notin {Empty, None} /\ r.duration # None

\* C12: for a raw record whose startTime is "" and whose endTime and duration
\* are present, get_game_shifts returns a row whose startTime, before the
\* period offset is added, is endTime minus duration in seconds, so that the
\* returned row has a start and an end time.
C12_StartBackfilled ==
    (pc \in {"returned", "raised"} /\ \E i \in 1..Len(raw) : StartMissing(raw[i])) =>
        /\ ShiftsReturned
        /\ \A i \in 1..Len(raw) :
               StartMissing(raw[i]) =>
                   \E k \in 1..Len(returned.rows) :
                       /\ returned.rows[k].Index = i - 1
                       /\ returned.rows[k].startTime
                              - PeriodSeconds * (raw[i].period - 1)
                              = ClockSeconds(raw[i].endTime)
                                    - ClockSeconds(raw[i].duration)
                       /\ returned.rows[k].endTime >= returned.rows[k].startTime

\* A raw record with endTime "" and a present startTime
EndMissing(r) ==
    r.endTime = Empty /\ r.startTime \notin {Empty, None} /\ r.duration # None

\* C13: for a raw record with missing endTime and present startTime, the
\* returned endTime is the end of period 3 (period-local 20:00) when the period
\* is 3 and the start minute is >= 18, whatever the duration; otherwise it is
\* startTime plus duration in total seconds plus the period offset, also when
\* the two second components sum to 60 or more.
C13_EndBackfilled ==
    ShiftsReturned =>
        \A k \in 1..Len(returned.rows) :
            LET r == RawOf(returned.rows[k])
            IN EndMissing(r) =>
                   IF r.period = 3 /\ ClockMin(r.startTime) >= 18
                   THEN returned.rows[k].endTime = 3 * PeriodSeconds
                   ELSE returned.rows[k].endTime
                            = ClockMin(r.startTime) * 60 + ClockSec(r.startTime)
                              + ClockMin(r.duration) * 60 + ClockSec(r.duration)
                              + PeriodSeconds * (r.period - 1)

\* A returned row whose end time was computed from start and duration with
\* second components that sum to 60 or more
C13_Witness ==
    /\ ShiftsReturned
    /\ \E k \in 1..Len(returned.rows) :
           LET r == RawOf(returned.rows[k])
           IN /\ EndMissing(r)
              /\ ~(r.period = 3 /\ ClockMin(r.startTime) >= 18)
              /\ ClockSec(r.startTime) + ClockSec(r.duration) >= 60
              /\ returned.rows[k].endTime
                     = ClockSeconds(r.startTime) + ClockSeconds(r.duration)
                       + PeriodSeconds * (r.period - 1)

----------------------------------------------------------------------------
(* The overlap test, the empty game and the processing order of              *)
(* get_overlapping_shifts, checked under SpecOverlap                         *)

\* The half-open intersection test a0 < b1 and b0 < a1
HalfOpen(A, B) == A.startTime < B.endTime /\ B.startTime < A.endTime

\* C14: the overlap predicate the code evaluates for source A = [a0,a1) and
\* partner B = [b0,b1) has the truth value of a0 < b1 /\ b0 < a1 for every pair
\* of shifts with endTime >= startTime, zero-duration shifts included; so every
\* partner the inner loop visits intersects its source shift.
C14_PredicateIsHalfOpen ==
    /\ \A i, j \in 1..Len(all_game_shifts) :
           i # j => (correct_time(all_game_shifts[j], all_game_shifts[i])
                        <=> HalfOpen(all_game_shifts[i], all_game_shifts[j]))
    /\ \A k \in 1..Len(compared) :
           HalfOpen(RowAt(all_game_shifts, compared[k].src),
                    RowAt(all_game_shifts, compared[k].tgt))

\* The frame has no row of the requested game (also: it has no row)
NoUsableRows ==
    \A i \in 1..Len(game_shifts_df) : game_shifts_df[i].gameId # gameId

\* C15: when the frame has no row of the requested game, get_overlapping_shifts
\* returns an empty overlap table with the columns gameId, playerId, playerId2,
\* seconds and does not fail.
C15_EmptyGameEmptyResult ==
    (pc \in {"done", "raised"} /\ NoUsableRows) =>
        /\ pc = "done"
        /\ returned.status = "ok"
        /\ returned.rows = <<>>
        /\ returned.columns = <<"gameId", "playerId", "playerId2", "seconds">>

\* The player of the shift with index label idx
PlayerOf(idx) == RowAt(all_game_shifts, idx).playerId

\* The order of processing, in every state: the groups are in ascending
\* playerId order, the checked players are the players of the groups before
\* the running one, every visited partner belongs to a player later in the
\* order than the source's, and so does every emitted record's playerId2; no
\* player pair is emitted in both directions.
C16_Order ==
    /\ \A k, l \in 1..Len(groups) : k < l => groups[k][1] < groups[l][1]
    /\ checked_players = [k \in 1..(gi - 1) |-> groups[k][1]]
    /\ \A i \in 1..Len(compared) :
           PlayerOf(compared[i].src) < PlayerOf(compared[i].tgt)
    /\ pc = "done" =>
           /\ Len(checked_players) = Len(groups)
           /\ \A k \in 1..Len(returned.rows) :
                  /\ returned.rows[k].playerId < returned.rows[k].playerId2
                  /\ \A l \in 1..Len(returned.rows) :
                         ~(/\ returned.rows[l].playerId = returned.rows[k].playerId2
                           /\ returned.rows[l].playerId2 = returned.rows[k].playerId)

\* One step of the call: the checked players only grow, at the end; a player
\* is appended only when each of the player's shifts has been a source; the
\* partners visited in the step are shifts of neither a checked player nor
\* the running player.
C16_Step ==
    /\ Len(checked_players') >= Len(checked_players)
    /\ SubSeq(checked_players', 1, Len(checked_players)) = checked_players
    /\ Len(checked_players') > Len(checked_players) =>
           LET p == checked_players'[Len(checked_players')]
           IN /\ Len(checked_players') = Len(checked_players) + 1
              /\ p = groups[gi][1]
              /\ \A i \in 1..Len(all_game_shifts) :
                     all_game_shifts[i].playerId = p =>
                         \E e \in 1..Len(overlap_dict_all) :
                             overlap_dict_all[e].shift.Index
                                 = all_game_shifts[i].Index
    /\ \A k \in (Len(compared) + 1)..Len(compared') :
           /\ PlayerOf(compared'[k].src) = groups[gi][1]
           /\ PlayerOf(compared'[k].tgt) # groups[gi][1]
           /\ \A c \in 1..Len(checked_players) :
                  checked_players[c] # PlayerOf(compared'[k].tgt)

\* C16: get_overlapping_shifts processes the players one at a time in
\* ascending playerId order; a player is added to the checked players only
\* after all of that player's shifts have been compared; the checked players
\* never shrink; while p is the source no shift of a checked player or of p is
\* a target.  Hence every emitted record has playerId earlier in the order
\* than playerId2 and no player pair appears in both directions.
C16_CheckedOrder == []C16_Order /\ [][C16_Step]_vars

\* Three teammates whose shifts overlap pairwise were processed in the order
\* 1, 2, 3 and gave the records (1,2), (1,3), (2,3)
C16_Witness ==
    /\ pc = "done"
    /\ checked_players = <<1, 2, 3>>
    /\ Len(compared) = 3
    /\ {<<returned.rows[k].playerId, returned.rows[k].playerId2>> :
            k \in 1..Len(returned.rows)} = {<<1, 2>>, <<1, 3>>, <<2, 3>>}

====
